---------------------------- MODULE Spec2Model ----------------------------
(***************************************************************************)
(* Model of the decode-and-playback engine of simple_audio                 *)
(* (rust/src/audio/decoder.rs): the Decoder thread's loop, its command     *)
(* channel, the preload thread, the shared seek slot / looping flag /      *)
(* progress state, and the output sink's ring buffer.                      *)
(*                                                                         *)
(* Option<T> is modelled as a sequence of length <= 1: None == <<>>,       *)
(* Some(x) == <<x>>.                                                       *)
(***************************************************************************)
EXTENDS Integers, Sequences, FiniteSets

(* ------------------------------ bounds --------------------------------- *)
\* Commands the callers may have waiting in the channel at once.
MaxQueue == 1
\* Largest externally requested seek time, in seconds.
MaxSeek == 1
\* Buffers the sink's ring buffer holds before write() blocks.
RingCap == 1
\* Commands waiting in the channel at once when callers send in bursts.
BurstQueue == 2

(* ------------------------- the media sources --------------------------- *)
\* What the demuxer/decoder collaborator reports for each source:
\*   "good"    opens; time base and frame count known; one packet of
\*             another track in the stream.
\*   "rough"   opens; no time base (so no position and no duration) and a
\*             media source that cannot seek; its second packet is corrupt.
\*   "bad"     does not open (unsupported format, no track, no codec).
\*   "nolen"   opens; time base known, total frame count unknown.
Sources == {"good", "rough", "bad", "nolen"}

\* Time-base ticks per second of the sources that have a time base.
TicksPerSec == 2

Pkt(track, ts, ok) == [track |-> track, ts |-> ts, ok |-> ok]

\* The packet stream of a source: track id, timestamp (ticks), decodable.
Packets(src) ==
    CASE src = "good"  -> << Pkt(0, 0, TRUE), Pkt(1, 1, TRUE), Pkt(0, 2, TRUE) >>
      [] src = "rough" -> << Pkt(0, 0, TRUE), Pkt(0, 1, FALSE), Pkt(0, 2, TRUE) >>
      [] src = "nolen" -> << Pkt(0, 0, TRUE) >>
      [] OTHER         -> << >>

\* probe / default_track / make-decoder succeed (decoder.rs 313-327).
Probes(src) == src # "bad"
\* track.codec_params.time_base is Some.
HasTimebase(src) == src \in {"good", "nolen"}
\* track.codec_params.n_frames is Some.
HasFrames(src) == src \in {"good", "rough"}
\* The reader can seek the source by time.
Seekable(src) == src # "rough"
\* The selected track (reader.default_track().id).
TrackId(src) == 0
\* start_ts + n_frames, in ticks.
EndTs(src) == Len(Packets(src))

\* TimeBase::calc_time(ts).seconds: whole seconds, rounded down.
CalcSeconds(ts) == ts \div TicksPerSec
\* The timestamp a seek to `secs` asks for (SeekedTo.required_ts).
RequiredTs(secs) == secs * TicksPerSec

(* ------------------------------ Option --------------------------------- *)
None == << >>
Some(x) == << x >>
IsSome(o) == o # << >>
Unwrap(o) == o[1]


(* ------------------------------- state --------------------------------- *)
VARIABLES
    state,              \* Decoder.state: "Idle" | "Playing" | "Paused"
    cpal_output,        \* Decoder.cpal_output: Option<[src, ring]>
    playback,           \* Decoder.playback: Option<session>
    preload_playback,   \* Decoder.preload_playback: Option<session>
    preload_thread,     \* Decoder.preload_thread: Option<[src, fin]>
    rx,                 \* the command channel (TXRX), oldest first
    SEEK_TS,            \* shared seek slot: Option<seconds>
    IS_LOOPING,         \* shared looping flag
    PROGRESS,           \* shared progress state [position, duration]
    IS_FILE_PRELOADED,  \* shared "preload ready" flag
    pc,                 \* where the decoder thread is in start()
    seek_ts,            \* do_playback's local seek_ts
    pending,            \* the decoded buffer do_playback is about to write
    last,               \* history: the decoder thread's latest step
    slot,               \* history: who set SEEK_TS: "-", "ext", "extSeeked"
                        \* (external, and a reader seek to it was issued), "loop",
                        \* "next" (external, set while a command that installs
                        \* or removes the session was waiting in the channel),
                        \* "old" (set before the session was installed or removed)
    seekFloor,          \* history: required_ts of a seek applied, nothing written since
    lastPreload,        \* history: source of the latest Preload processed
    excuse              \* history: what happened since the latest progress update

engine == << state, cpal_output, playback, preload_playback, preload_thread >>
shared == << SEEK_TS, IS_LOOPING, PROGRESS, IS_FILE_PRELOADED >>
locals == << pc, seek_ts, pending >>
history == << last, slot, seekFloor, lastPreload, excuse >>
vars == << engine, shared, locals, history, rx >>

ZeroProgress == [position |-> 0, duration |-> 0]
NoBuffer == [kind |-> "none", ts |-> 0]

\* The record `last` keeps: the step and the notifications it published.
\* ("PreloadOver" is a Preload that dropped a held session of another source.)
Did(op, notes) == [op |-> op, notes |-> notes]

Msg(type) == [type |-> type, src |-> "-"]
SrcMsg(type, src) == [type |-> type, src |-> src]

\* Decoder::new (decoder.rs 42-54) and the statics' initial values.
Init ==
    /\ state = "Idle"
    /\ cpal_output = None
    /\ playback = None
    /\ preload_playback = None
    /\ preload_thread = None
    /\ rx = << >>
    /\ SEEK_TS = None
    /\ IS_LOOPING = FALSE
    /\ PROGRESS = ZeroProgress
    /\ IS_FILE_PRELOADED = FALSE
    /\ pc = "poll"
    /\ seek_ts = 0
    /\ pending = NoBuffer
    /\ last = Did("new", {})
    /\ slot = "-"
    /\ seekFloor = None
    /\ lastPreload = "-"
    /\ excuse = "none"

(* ----------------------------- Decoder::open --------------------------- *)
\* How open() ends for a source: "err" (a `?` returns the error), "panic"
\* (ts.unwrap() on a track with a time base and no frame count), or "ok".
OpenOutcome(src) ==
    IF ~Probes(src) THEN "err"
    ELSE IF HasTimebase(src) /\ ~HasFrames(src) THEN "panic"
    ELSE "ok"

\* Playback.duration as open() computes it.
OpenDuration(src) ==
    IF HasTimebase(src) THEN CalcSeconds(EndTs(src)) ELSE 0

\* The Playback open() returns: reader at its first packet, no preload buffer.
Opened(src) ==
    [src |-> src, pos |-> 1, duration |-> OpenDuration(src),
     preload |-> FALSE]

(* ---------------------------- Decoder::preload ------------------------- *)
\* Whether the preload thread's closure returns Ok: open() returns Ok (a
\* panic in it makes join() return Err), and the first packet is read and
\* decoded.
PreloadOk(src) ==
    /\ OpenOutcome(src) = "ok"
    /\ Len(Packets(src)) >= 1
    /\ Packets(src)[1].ok

\* The Playback the preload thread returns: first packet consumed and kept
\* decoded in `preload`.
Preloaded(src) ==
    [Opened(src) EXCEPT !.pos = 2, !.preload = TRUE]

(* ----------------------- Decoder::poll_preload_thread ------------------ *)
\* One call of poll_preload_thread and start()'s match on its result: a
\* finished handle is taken and joined; Ok stores the session and raises
\* the flag, Err publishes DecodeError.
Poll ==
    /\ pc = "poll"
    /\ pc' = "listen"
    /\ IF preload_thread = None \/ ~Unwrap(preload_thread).fin
       THEN /\ UNCHANGED << preload_thread, preload_playback, IS_FILE_PRELOADED >>
            /\ last' = Did("poll", {})
       ELSE LET h == Unwrap(preload_thread) IN
            /\ preload_thread' = None
            /\ IF PreloadOk(h.src)
               THEN /\ preload_playback' = Some(Preloaded(h.src))
                    /\ IS_FILE_PRELOADED' = TRUE
                    /\ last' = Did("preloaded", {})
               ELSE /\ UNCHANGED << preload_playback, IS_FILE_PRELOADED >>
                    /\ last' = Did("preloadErr", {"DecodeError"})
    /\ UNCHANGED << state, cpal_output, playback, rx, SEEK_TS, IS_LOOPING,
                    PROGRESS, seek_ts, pending, slot,
                    seekFloor, lastPreload, excuse >>

(* ----------------------- Decoder::listen_for_message ------------------- *)
\* What the history of the seek slot becomes when a session is installed
\* over, or removed from under, a request that is still pending: "old",
\* unless the request was made after the command had been sent.
OrphanedSlot ==
    IF slot = "next" THEN "ext"
    ELSE IF IsSome(SEEK_TS) /\ IsSome(playback) THEN "old"
    ELSE slot

\* HandleOpen with self.playback assigned before open()'s result is known:
\* a failed open() leaves no session.
HandleOpenAssignsFirst(m) ==
    /\ cpal_output' = None
    /\ rx' = Tail(rx)
    /\ CASE OpenOutcome(m.src) = "ok" ->
              /\ playback' = Some(Opened(m.src))
              /\ last' = Did("Open", {})
              /\ excuse' = "explicit"
              /\ seekFloor' = None
              /\ slot' = OrphanedSlot
         [] OpenOutcome(m.src) = "err" ->
              /\ playback' = None
              /\ last' = Did("OpenErr", {"DecodeError"})
              /\ UNCHANGED << excuse, seekFloor, slot >>
         [] OTHER ->
              /\ last' = Did("panic", {})
              /\ UNCHANGED << playback, excuse, seekFloor, slot >>
    /\ UNCHANGED << state, preload_playback, preload_thread,
                    IS_FILE_PRELOADED, lastPreload >>

\* ThreadMessage::Open: the sink is dropped first, then open() runs; its
\* error leaves self.playback as it was.
HandleOpen(m) ==
    /\ cpal_output' = None
    /\ rx' = Tail(rx)
    /\ CASE OpenOutcome(m.src) = "ok" ->
              /\ playback' = Some(Opened(m.src))
              /\ last' = Did("Open", {})
              /\ excuse' = "explicit"
              /\ seekFloor' = None
              /\ slot' = OrphanedSlot
         [] OpenOutcome(m.src) = "err" ->
              /\ last' = Did("OpenErr", {"DecodeError"})
              /\ UNCHANGED << playback, excuse, seekFloor, slot >>
         [] OTHER ->
              /\ last' = Did("panic", {})
              /\ UNCHANGED << playback, excuse, seekFloor, slot >>
    /\ UNCHANGED << state, preload_playback, preload_thread,
                    IS_FILE_PRELOADED, lastPreload >>

\* stream.play() / stream.pause() on an existing sink may fail; the state
\* is already assigned when the `?` returns the error.
StreamCallOk == IF IsSome(cpal_output) THEN BOOLEAN ELSE {TRUE}

\* HandlePlay with the state assigned after the sink's stream is resumed: a
\* failed resume leaves the state as it was.
HandlePlayAssignsAfter ==
    /\ rx' = Tail(rx)
    /\ \E ok \in StreamCallOk :
            /\ state' = IF ok THEN "Playing" ELSE state
            /\ last' = Did("Play", IF ok THEN {} ELSE {"DecodeError"})
    /\ UNCHANGED << cpal_output, playback, preload_playback, preload_thread,
                    IS_FILE_PRELOADED, lastPreload, excuse, seekFloor, slot >>

\* ThreadMessage::Play.
HandlePlay ==
    /\ state' = "Playing"
    /\ rx' = Tail(rx)
    /\ \E ok \in StreamCallOk :
            last' = Did("Play", IF ok THEN {} ELSE {"DecodeError"})
    /\ UNCHANGED << cpal_output, playback, preload_playback, preload_thread,
                    IS_FILE_PRELOADED, lastPreload, excuse, seekFloor, slot >>

\* ThreadMessage::Pause.
HandlePause ==
    /\ state' = "Paused"
    /\ rx' = Tail(rx)
    /\ \E ok \in StreamCallOk :
            last' = Did("Pause", IF ok THEN {} ELSE {"DecodeError"})
    /\ UNCHANGED << cpal_output, playback, preload_playback, preload_thread,
                    IS_FILE_PRELOADED, lastPreload, excuse, seekFloor, slot >>

\* HandleStop without `self.cpal_output = None`.
HandleStopKeepsSink ==
    /\ state' = "Idle"
    /\ playback' = None
    /\ rx' = Tail(rx)
    /\ last' = Did("Stop", {})
    /\ excuse' = "explicit"
    /\ seekFloor' = None
    /\ slot' = OrphanedSlot
    /\ UNCHANGED << cpal_output, preload_playback, preload_thread,
                    IS_FILE_PRELOADED, lastPreload >>

\* ThreadMessage::Stop.
HandleStop ==
    /\ state' = "Idle"
    /\ cpal_output' = None
    /\ playback' = None
    /\ rx' = Tail(rx)
    /\ last' = Did("Stop", {})
    /\ excuse' = "explicit"
    /\ seekFloor' = None
    /\ slot' = OrphanedSlot
    /\ UNCHANGED << preload_playback, preload_thread, IS_FILE_PRELOADED,
                    lastPreload >>

\* Player::internal_play / Player::internal_pause, called by the decoder
\* thread: they have no access to the Decoder, so they cannot assign its
\* state. Either they do nothing (the player is already in that mode) or
\* they publish the playback state and send the command to the channel.
InternalCall(type) ==
    \/ /\ rx' = Tail(rx)
       /\ last' = Did(type, {})
    \/ /\ rx' = Append(Tail(rx), Msg(IF type = "PlayPreload" THEN "Play" ELSE "Pause"))
       /\ last' = Did(type, {IF type = "PlayPreload" THEN "Play" ELSE "Pause"})

\* ThreadMessage::DeviceChanged.
HandleDeviceChanged ==
    /\ cpal_output' = None
    /\ InternalCall("DeviceChanged")
    /\ UNCHANGED << state, playback, preload_playback, preload_thread,
                    IS_FILE_PRELOADED, lastPreload, excuse, seekFloor, slot >>

\* HandlePreload without `self.preload_playback = None`.
HandlePreloadKeepsHeld(m) ==
    /\ preload_thread' = Some([src |-> m.src, fin |-> FALSE])
    /\ lastPreload' = m.src
    /\ rx' = Tail(rx)
    /\ last' = Did("Preload", {})
    /\ UNCHANGED << state, cpal_output, playback, preload_playback,
                    IS_FILE_PRELOADED, excuse, seekFloor, slot >>

\* ThreadMessage::Preload: the held preloaded session is dropped, the flag
\* lowered, and the new thread's handle replaces the old one.
HandlePreload(m) ==
    /\ preload_playback' = None
    /\ IS_FILE_PRELOADED' = FALSE
    /\ preload_thread' = Some([src |-> m.src, fin |-> FALSE])
    /\ lastPreload' = m.src
    /\ rx' = Tail(rx)
    /\ last' = Did(IF IsSome(preload_playback) /\ Unwrap(preload_playback).src # m.src
                    THEN "PreloadOver" ELSE "Preload", {})
    /\ UNCHANGED << state, cpal_output, playback, excuse, seekFloor, slot >>

\* HandlePlayPreload without the early return on an empty preload_playback.
HandlePlayPreloadUnguarded ==
    /\ InternalCall("PlayPreload")
    /\ cpal_output' = None
    /\ playback' = preload_playback
    /\ preload_playback' = None
    /\ IS_FILE_PRELOADED' = FALSE
    /\ excuse' = "explicit"
    /\ seekFloor' = None
    /\ slot' = OrphanedSlot
    /\ UNCHANGED << state, preload_thread, lastPreload >>

\* ThreadMessage::PlayPreload: returns at once when nothing is preloaded.
HandlePlayPreload ==
    IF preload_playback = None
    THEN /\ rx' = Tail(rx)
         /\ last' = Did("PlayPreloadNoop", {})
         /\ UNCHANGED << state, cpal_output, playback, preload_playback,
                         preload_thread, IS_FILE_PRELOADED, lastPreload,
                         excuse, seekFloor, slot >>
    ELSE /\ InternalCall("PlayPreload")
         /\ cpal_output' = None
         /\ playback' = preload_playback
         /\ preload_playback' = None
         /\ IS_FILE_PRELOADED' = FALSE
         /\ excuse' = "explicit"
         /\ seekFloor' = None
         /\ slot' = OrphanedSlot
         /\ UNCHANGED << state, preload_thread, lastPreload >>

\* ThreadMessage::Dispose: listen_for_message returns Ok(true).
HandleDispose ==
    /\ rx' = Tail(rx)
    /\ last' = Did("Dispose", {})
    /\ UNCHANGED << state, cpal_output, playback, preload_playback,
                    preload_thread, IS_FILE_PRELOADED, lastPreload, excuse,
                    seekFloor, slot >>

Handle(m) ==
    CASE m.type = "Open"          -> HandleOpen(m)
      [] m.type = "Play"          -> HandlePlay
      [] m.type = "Pause"         -> HandlePause
      [] m.type = "Stop"          -> HandleStop
      [] m.type = "DeviceChanged" -> HandleDeviceChanged
      [] m.type = "Preload"       -> HandlePreload(m)
      [] m.type = "PlayPreload"   -> HandlePlayPreload
      [] OTHER                    -> HandleDispose

\* AfterListen without the check of the state at line 86: every iteration
\* that stays in the loop goes on to do_playback.
AfterListenAlwaysPlays(m, st) ==
    IF m.type = "Dispose" THEN "stopped"
    ELSE IF m.type = "Open" /\ OpenOutcome(m.src) = "panic" THEN "panicked"
    ELSE "play"

\* Where start() goes after listen_for_message: out of the loop on Dispose,
\* nowhere after a panic, back to the top when Idle or Paused, otherwise on
\* to do_playback.
AfterListen(m, st) ==
    IF m.type = "Dispose" THEN "stopped"
    ELSE IF m.type = "Open" /\ OpenOutcome(m.src) = "panic" THEN "panicked"
    ELSE IF st \in {"Idle", "Paused"} THEN "poll"
    ELSE "play"

\* recv() when Idle or Paused (waits for a message), try_recv() when Playing.
Listen ==
    /\ pc = "listen"
    /\ IF rx = << >>
       THEN /\ state = "Playing"
            /\ pc' = "play"
            /\ last' = Did("nomsg", {})
            /\ UNCHANGED << engine, rx, IS_FILE_PRELOADED, lastPreload,
                            excuse, seekFloor, slot >>
       ELSE /\ Handle(Head(rx))
            /\ pc' = AfterListen(Head(rx), state')
    /\ UNCHANGED << SEEK_TS, IS_LOOPING, PROGRESS, seek_ts, pending >>

(* --------------------------- Decoder::do_playback ---------------------- *)
\* CpalOutput::new may fail (no device, unsupported configuration).
SinkNewOk == BOOLEAN

\* reader.seek(SeekMode::Coarse, Time(secs)) on a session: the outcomes the
\* reader may produce, as [ok, required_ts, pos]. On a source that cannot
\* seek, or past the last packet, the seek fails and the reader stays where
\* it was; otherwise the reader lands on a packet at or before the target.
SeekOutcomes(pb, secs) ==
    LET pkts == Packets(pb.src)
        req  == RequiredTs(secs)
    IN  IF ~Seekable(pb.src) \/ pkts = << >> \/ req > pkts[Len(pkts)].ts
        THEN { [ok |-> FALSE, required_ts |-> 0, pos |-> pb.pos] }
        ELSE { [ok |-> TRUE, required_ts |-> req, pos |-> i] :
                    i \in { j \in 1..Len(pkts) : pkts[j].ts <= req } }

\* The local seek_ts: required_ts of the seek, 0 when it failed.
SeekTsOf(o) == IF o.ok THEN o.required_ts ELSE 0

\* Lines 190-218: no session; or the preload buffer is taken and handed to
\* the sink (built here when absent); or the seek slot is read and, when
\* set, the reader is asked to seek (the slot's read lock is held across
\* the seek).
PlayStep ==
    /\ pc = "play"
    /\ IF playback = None
       THEN /\ pc' = "poll"
            /\ last' = Did("nosession", {})
            /\ UNCHANGED << playback, cpal_output, seek_ts, pending,
                            slot, seekFloor, excuse >>
       ELSE LET pb == Unwrap(playback) IN
            IF pb.preload
            THEN /\ playback' = Some([pb EXCEPT !.preload = FALSE])
                 /\ UNCHANGED << seek_ts, slot, seekFloor, excuse >>
                 /\ IF cpal_output = None
                    THEN \E ok \in SinkNewOk :
                           IF ok
                           THEN /\ cpal_output' = Some([src |-> pb.src, ring |-> 0])
                                /\ pending' = [kind |-> "preload", ts |-> Packets(pb.src)[1].ts]
                                /\ pc' = "write"
                                /\ last' = Did("sinkNew", {})
                           ELSE /\ UNCHANGED << cpal_output, pending >>
                                /\ pc' = "poll"
                                /\ last' = Did("sinkErr", {"DecodeError"})
                    ELSE /\ UNCHANGED cpal_output
                         /\ pending' = [kind |-> "preload", ts |-> Packets(pb.src)[1].ts]
                         /\ pc' = "write"
                         /\ last' = Did("takePreload", {})
            ELSE /\ pc' = "seekCheck"
                 /\ UNCHANGED << cpal_output, pending >>
                 /\ IF IsSome(SEEK_TS)
                    THEN \E o \in SeekOutcomes(pb, Unwrap(SEEK_TS)) :
                           /\ playback' = Some([pb EXCEPT !.pos = o.pos])
                           /\ seek_ts' = SeekTsOf(o)
                           /\ slot' = IF slot \in {"ext", "next"} THEN "extSeeked" ELSE slot
                           /\ seekFloor' = IF o.ok THEN Some(o.required_ts) ELSE seekFloor
                           /\ excuse' = IF slot \in {"ext", "next"} \/ excuse = "explicit"
                                        THEN "explicit"
                                        ELSE "loop"
                           /\ last' = Did("seek", {})
                    ELSE /\ seek_ts' = 0
                         /\ last' = Did("noseek", {})
                         /\ UNCHANGED << playback, slot, seekFloor, excuse >>
    /\ UNCHANGED << state, preload_playback, preload_thread, rx, SEEK_TS,
                    IS_LOOPING, PROGRESS, IS_FILE_PRELOADED, lastPreload >>

\* Line 221: the slot is read again.
SeekCheck ==
    /\ pc = "seekCheck"
    /\ pc' = IF IsSome(SEEK_TS) THEN "seekClear" ELSE "decode"
    /\ last' = Did("seekCheck", {})
    /\ UNCHANGED << engine, shared, rx, seek_ts, pending, slot,
                    seekFloor, lastPreload, excuse >>

\* SeekClear without `*SEEK_TS.write().unwrap() = None`.
SeekClearKeepsSlot ==
    /\ pc = "seekClear"
    /\ pc' = "poll"
    /\ cpal_output' = IF IsSome(cpal_output)
                      THEN Some([Unwrap(cpal_output) EXCEPT !.ring = 0])
                      ELSE cpal_output
    /\ seek_ts' = 0
    /\ last' = Did("seekClear", {})
    /\ UNCHANGED << state, playback, preload_playback, preload_thread, rx,
                    shared, pending, slot, seekFloor, lastPreload, excuse >>

\* Lines 223-230: the slot is cleared, the decoder reset, the sink's ring
\* buffer emptied, and do_playback returns Ok(false).
SeekClear ==
    /\ pc = "seekClear"
    /\ pc' = "poll"
    /\ SEEK_TS' = None
    /\ cpal_output' = IF IsSome(cpal_output)
                      THEN Some([Unwrap(cpal_output) EXCEPT !.ring = 0])
                      ELSE cpal_output
    /\ seek_ts' = 0
    /\ last' = Did("seekClear", {})
    /\ slot' = "-"
    /\ UNCHANGED << state, playback, preload_playback, preload_thread, rx,
                    IS_LOOPING, PROGRESS, IS_FILE_PRELOADED, pending,
                    seekFloor, lastPreload, excuse >>

\* DecodeFails with the decoder's error ignored: every packet counts as
\* decoded.
DecodeFailsIgnored(pkt) == FALSE

\* Lines 253-254: decoder.decode(&packet) returns an error, which the `?`
\* hands to start().
DecodeFails(pkt) == ~pkt.ok

\* Line 256: a packet behind the seek target is dropped.
IsStale(ts, target) == ts < target

\* PositionOf as the time left to play instead of the time played.
PositionOfRemaining(pb, ts) ==
    IF HasTimebase(pb.src) THEN pb.duration - CalcSeconds(ts) ELSE 0

\* Lines 258-262: the position published for a packet.
PositionOf(pb, ts) == IF HasTimebase(pb.src) THEN CalcSeconds(ts) ELSE 0

\* EndOfStream without the write of Some(0) to the seek slot.
EndOfStreamKeepsSlot ==
    IF IS_LOOPING
    THEN /\ pc' = "poll"
         /\ last' = Did("looped", {"PlaybackLooped"})
         /\ UNCHANGED << state, SEEK_TS, slot >>
    ELSE /\ state' = "Idle"
         /\ pc' = "finish"
         /\ last' = Did("complete", {})
         /\ UNCHANGED << SEEK_TS, slot >>

\* Lines 239-248, end of stream: with looping on, the slot is set to 0,
\* PlaybackLooped is published and do_playback returns Ok(false); otherwise
\* it returns Ok(true) and start() assigns Idle before finish_playback.
EndOfStream ==
    IF IS_LOOPING
    THEN /\ SEEK_TS' = Some(0)
         /\ slot' = "loop"
         /\ pc' = "poll"
         /\ last' = Did("looped", {"PlaybackLooped"})
         /\ UNCHANGED state
    ELSE /\ state' = "Idle"
         /\ pc' = "finish"
         /\ last' = Did("complete", {})
         /\ UNCHANGED << SEEK_TS, slot >>

\* The step that publishes a packet's progress: "decoded", or, when the
\* position is behind the stored one, "decodedBack" (after an explicit seek
\* or command), "decodedLoop" (after a loop's seek) or "decodedSlip".
Published(pb, ts) ==
    Did(IF PositionOf(pb, ts) >= PROGRESS.position THEN "decoded"
        ELSE IF excuse = "explicit" THEN "decodedBack"
        ELSE IF excuse = "loop" THEN "decodedLoop"
        ELSE "decodedSlip",
        {"Progress"})

\* Lines 234-279: the next packet is pulled; a packet of another track, a
\* packet that fails to decode and a stale packet end the step; otherwise
\* the progress is published and the sink is built when absent.
Decode ==
    /\ pc = "decode"
    /\ seek_ts' = 0
    /\ LET pb   == Unwrap(playback)
           pkts == Packets(pb.src)
       IN  IF pb.pos > Len(pkts)
           THEN /\ EndOfStream
                /\ UNCHANGED << playback, cpal_output, PROGRESS, pending, excuse >>
           ELSE LET pkt == pkts[pb.pos] IN
                /\ playback' = Some([pb EXCEPT !.pos = pb.pos + 1])
                /\ UNCHANGED << state, SEEK_TS, slot >>
                /\ IF pkt.track # TrackId(pb.src)
                   THEN /\ pc' = "poll"
                        /\ last' = Did("otherTrack", {})
                        /\ UNCHANGED << cpal_output, PROGRESS, pending, excuse >>
                   ELSE IF DecodeFails(pkt)
                   THEN /\ pc' = "poll"
                        /\ last' = Did("decodeErr", {"DecodeError"})
                        /\ UNCHANGED << cpal_output, PROGRESS, pending, excuse >>
                   ELSE IF IsStale(pkt.ts, seek_ts)
                   THEN /\ pc' = "poll"
                        /\ last' = Did("stale", {})
                        /\ UNCHANGED << cpal_output, PROGRESS, pending, excuse >>
                   ELSE /\ PROGRESS' = [position |-> PositionOf(pb, pkt.ts),
                                        duration |-> pb.duration]
                        /\ excuse' = "none"
                        /\ IF cpal_output = None
                           THEN \E ok \in SinkNewOk :
                                  IF ok
                                  THEN /\ cpal_output' = Some([src |-> pb.src, ring |-> 0])
                                       /\ pending' = [kind |-> "packet", ts |-> pkt.ts]
                                       /\ pc' = "write"
                                       /\ last' = Published(pb, pkt.ts)
                                  ELSE /\ UNCHANGED << cpal_output, pending >>
                                       /\ pc' = "poll"
                                       /\ last' = Did("sinkErr", {"Progress", "DecodeError"})
                           ELSE /\ UNCHANGED cpal_output
                                /\ pending' = [kind |-> "packet", ts |-> pkt.ts]
                                /\ pc' = "write"
                                /\ last' = Published(pb, pkt.ts)
    /\ UNCHANGED << preload_playback, preload_thread, rx, IS_LOOPING,
                    IS_FILE_PRELOADED, seekFloor, lastPreload >>

\* cpal_output.write(buffer) (lines 205, 281): waits while the ring buffer
\* is full, then do_playback returns Ok(false).
Write ==
    /\ pc = "write"
    /\ Unwrap(cpal_output).ring < RingCap
    /\ cpal_output' = Some([Unwrap(cpal_output) EXCEPT !.ring = @ + 1])
    /\ pc' = "poll"
    /\ pending' = NoBuffer
    /\ last' = Did("write", {})
    /\ seekFloor' = IF pending.kind = "packet" THEN None ELSE seekFloor
    /\ UNCHANGED << state, playback, preload_playback, preload_thread, rx,
                    shared, seek_ts, slot, lastPreload,
                    excuse >>

(* -------------------------- Decoder::finish_playback ------------------- *)
\* FinishPlayback without the flush of the sink.
FinishPlaybackNoFlush ==
    /\ pc = "finish"
    /\ PROGRESS' = ZeroProgress
    /\ pc' = "poll"
    /\ last' = Did("finish", {"Done", "Progress"})
    /\ excuse' = "none"
    /\ UNCHANGED << engine, rx, SEEK_TS, IS_LOOPING, IS_FILE_PRELOADED,
                    seek_ts, pending, slot, seekFloor,
                    lastPreload >>

\* flush() returns once the sink's thread has drained the ring buffer; then
\* Done and the zero progress are published.
FinishPlayback ==
    /\ pc = "finish"
    /\ IF IsSome(cpal_output) THEN Unwrap(cpal_output).ring = 0 ELSE TRUE
    /\ PROGRESS' = ZeroProgress
    /\ pc' = "poll"
    /\ last' = Did("finish", {"Done", "Progress"})
    /\ excuse' = "none"
    /\ UNCHANGED << engine, rx, SEEK_TS, IS_LOOPING, IS_FILE_PRELOADED,
                    seek_ts, pending, slot, seekFloor,
                    lastPreload >>

(* ------------------------- the other threads -------------------------- *)
\* The decoder thread is in its loop (it has neither returned nor panicked).
Running == pc \notin {"stopped", "panicked"}

\* A caller sends a command that carries no source.
Send(type) ==
    /\ Running
    /\ Len(rx) < MaxQueue
    /\ rx' = Append(rx, Msg(type))
    /\ UNCHANGED << engine, shared, locals, history >>

\* A caller sends Open(source) or Preload(source).
SendSource(type, src) ==
    /\ Running
    /\ Len(rx) < MaxQueue
    /\ rx' = Append(rx, SrcMsg(type, src))
    /\ UNCHANGED << engine, shared, locals, history >>

\* A caller stops playback: Stop is sent and the caller zeroes the progress.
SendStop ==
    /\ Running
    /\ Len(rx) < MaxQueue
    /\ rx' = Append(rx, Msg("Stop"))
    /\ PROGRESS' = ZeroProgress
    /\ excuse' = "explicit"
    /\ UNCHANGED << engine, SEEK_TS, IS_LOOPING, IS_FILE_PRELOADED, locals,
                    last, slot, seekFloor, lastPreload >>

\* A caller requests a seek: the slot is overwritten.
SeekCall(secs) ==
    /\ Running
    /\ SEEK_TS' = Some(secs)
    /\ slot' = IF \E i \in 1..Len(rx) : rx[i].type \in {"Open", "Stop", "PlayPreload"}
               THEN "next" ELSE "ext"
    /\ UNCHANGED << engine, rx, IS_LOOPING, PROGRESS, IS_FILE_PRELOADED,
                    locals, last, seekFloor, lastPreload, excuse >>

\* A caller switches looping on or off.
SetLooping ==
    /\ Running
    /\ IS_LOOPING' = ~IS_LOOPING
    /\ UNCHANGED << engine, rx, SEEK_TS, PROGRESS, IS_FILE_PRELOADED, locals,
                    history >>

\* The preload thread returns (is_finished() turns true).
PreloadFinished ==
    /\ Running
    /\ IsSome(preload_thread)
    /\ ~Unwrap(preload_thread).fin
    /\ preload_thread' = Some([Unwrap(preload_thread) EXCEPT !.fin = TRUE])
    /\ UNCHANGED << state, cpal_output, playback, preload_playback, rx,
                    shared, locals, history >>

\* The sink's callback thread consumes one buffer of the ring buffer.
SinkConsume ==
    /\ Running
    /\ IsSome(cpal_output)
    /\ Unwrap(cpal_output).ring > 0
    /\ cpal_output' = Some([Unwrap(cpal_output) EXCEPT !.ring = @ - 1])
    /\ UNCHANGED << state, playback, preload_playback, preload_thread, rx,
                    shared, locals, history >>

(* --------------------------- specification ---------------------------- *)
DecoderStep ==
    \/ Poll
    \/ Listen
    \/ PlayStep
    \/ SeekCheck
    \/ SeekClear
    \/ Decode
    \/ Write
    \/ FinishPlayback

Callers ==
    \/ \E type \in {"Play", "Pause", "DeviceChanged", "PlayPreload", "Dispose"} :
            Send(type)
    \/ \E type \in {"Open", "Preload"}, src \in Sources : SendSource(type, src)
    \/ SendStop
    \/ \E secs \in 0..MaxSeek : SeekCall(secs)
    \/ SetLooping

Next == DecoderStep \/ Callers \/ PreloadFinished \/ SinkConsume

Spec == Init /\ [][Next]_vars

(* ------------------ callers that send commands in bursts --------------- *)
\* A caller sends a command while others may still be waiting in the channel.
Burst(type, src) ==
    /\ Running
    /\ Len(rx) < BurstQueue
    /\ rx' = Append(rx, SrcMsg(type, src))
    /\ UNCHANGED << engine, shared, locals, history >>

BurstCallers ==
    \/ \E type \in {"Play", "Pause", "Stop", "DeviceChanged", "Dispose"} :
            Burst(type, "-")
    \/ \E src \in {"good", "rough"} : Burst("Open", src)
    \/ \E secs \in 0..MaxSeek : SeekCall(secs)
    \/ SetLooping

\* The decoder thread with callers that queue up to BurstQueue transport
\* commands on one source.
BurstNext == DecoderStep \/ BurstCallers \/ SinkConsume

BurstSpec == Init /\ [][BurstNext]_vars

(* --------------- callers that leave a playing engine alone ------------- *)
\* The engine is in its loop, Playing a session with looping off and no
\* command waiting.
Quiet ==
    /\ Running
    /\ state = "Playing"
    /\ IsSome(playback)
    /\ ~IS_LOOPING
    /\ rx = << >>

\* The callers open sources that open, play, pause, stop, seek and switch
\* looping; they send no command, request no seek and leave the looping
\* flag alone while the engine is Quiet.
QuietCallers ==
    /\ ~Quiet
    /\ \/ \E type \in {"Play", "Pause"} : Send(type)
       \/ \E src \in {"good", "rough"} : SendSource("Open", src)
       \/ SendStop
       \/ \E secs \in 0..MaxSeek : SeekCall(secs)
       \/ SetLooping

QuietNext == DecoderStep \/ QuietCallers \/ SinkConsume

\* The decoder thread and the sink's consumer thread are scheduled fairly:
\* each takes its step when it stays able to.
QuietSpec ==
    /\ Init
    /\ [][QuietNext]_vars
    /\ WF_vars(DecoderStep)
    /\ WF_vars(SinkConsume)

(* ------------------------------ claims -------------------------------- *)
\* The decoder thread takes a command of this type off the channel.
Dequeues(type) ==
    /\ pc = "listen"
    /\ rx # << >>
    /\ Head(rx).type = type
    /\ pc' # pc

\* C1: right after the decoder thread has processed Stop, the state is
\* Idle, the stored progress is {0, 0} and there is no sink.
CE_C1 ==
    last.op = "Stop" =>
        /\ state = "Idle"
        /\ PROGRESS = ZeroProgress
        /\ cpal_output = None

\* C2: the first packet handed to the sink after a seek was applied has a
\* timestamp at or after the seek's target (an earlier one is dropped).
CE_C2 ==
    (pc = "write" /\ pending.kind = "packet" /\ IsSome(seekFloor)) =>
        pending.ts >= Unwrap(seekFloor)

\* C3: the decoder thread clears or overwrites the seek slot only when the
\* external request it holds has been issued to the reader as a seek.
CE_C3 ==
    [][ (pc' # pc /\ SEEK_TS' # SEEK_TS) => slot # "ext" ]_vars

\* C4: after Preload(X) then Preload(Y), what is held as preloaded and what
\* PlayPreload installs is the session of Y, the latest Preload processed;
\* processing Preload(Y) leaves no earlier session held.
Thm_C4 ==
    /\ IsSome(preload_playback) => Unwrap(preload_playback).src = lastPreload
    /\ last.op = "PlayPreload" =>
            IsSome(playback) /\ Unwrap(playback).src = lastPreload
    /\ last.op \in {"Preload", "PreloadOver"} =>
            /\ preload_playback = None
            /\ IsSome(preload_thread)
            /\ Unwrap(preload_thread).src = lastPreload

\* C4's case: Preload(Y) was processed while the finished session of another
\* source X was held, and X's session is gone.
Witness_C4 ==
    /\ last.op = "PreloadOver"
    /\ preload_playback = None
    /\ Unwrap(preload_thread).src = lastPreload

\* C5: PlayPreload dequeued while no preloaded session is held changes
\* neither the state, the session, the sink nor the preload-ready flag,
\* publishes nothing and sends no Play.
Thm_C5 ==
    [][ (Dequeues("PlayPreload") /\ preload_playback = None) =>
            /\ UNCHANGED << state, playback, cpal_output, preload_playback,
                            preload_thread, IS_FILE_PRELOADED >>
            /\ last'.notes = {}
            /\ rx' = Tail(rx) ]_vars

\* C5's case: the no-op PlayPreload was processed while playing a session
\* through a sink.
Witness_C5 ==
    /\ last.op = "PlayPreloadNoop"
    /\ state = "Playing"
    /\ IsSome(playback)
    /\ IsSome(cpal_output)

\* C8: an Open whose source does not open publishes DecodeError and leaves
\* the active session and the engine state as they were.
Thm_C8 ==
    [][ (Dequeues("Open") /\ OpenOutcome(Head(rx).src) = "err") =>
            /\ playback' = playback
            /\ state' = state
            /\ "DecodeError" \in last'.notes ]_vars

\* C8's case: the failed Open was processed while a session was active and
\* the engine was not Idle.
Witness_C8 ==
    /\ last.op = "OpenErr"
    /\ IsSome(playback)
    /\ state # "Idle"

\* C9: the decoder thread leaves its loop only by dequeuing Dispose.
CE_C9 ==
    ~Running => last.op = "Dispose"

\* do_playback is about to pull a packet and the reader has none left.
AtEndOfStream ==
    /\ pc = "decode"
    /\ Unwrap(playback).pos > Len(Packets(Unwrap(playback).src))
    /\ pc' # pc

\* C6: with looping off, the playback step that reaches end-of-stream makes
\* the state Idle and goes straight to finish_playback, which waits for the
\* sink to drain, publishes Done and zeroes the progress; no command is
\* dequeued in between.
Thm_C6 ==
    /\ [](last.op = "finish" =>
            /\ state = "Idle"
            /\ PROGRESS = ZeroProgress
            /\ "Done" \in last.notes
            /\ IsSome(cpal_output) => Unwrap(cpal_output).ring = 0)
    /\ [][ (AtEndOfStream /\ ~IS_LOOPING) =>
                (state' = "Idle" /\ pc' = "finish" /\ rx' = rx) ]_vars
    /\ [][ (pc = "finish" /\ pc' # pc) =>
                (last'.op = "finish" /\ rx' = rx) ]_vars

\* C6's case: playback of a session ran to its end with a sink in place and
\* finish_playback has run.
Witness_C6 ==
    /\ last.op = "finish"
    /\ IsSome(cpal_output)
    /\ IsSome(playback)

\* The playback step applies the seek that a looped end-of-stream left in
\* the slot.
AppliesLoopSeek ==
    /\ pc = "play"
    /\ pc' = "seekCheck"
    /\ slot = "loop"

\* C7 as claimed: the playback step that applies the seek left by a looped
\* end-of-stream puts the reader back at its first packet, so that packets
\* are emitted again from timestamp 0.
CE_C7 ==
    [][ AppliesLoopSeek => Unwrap(playback').pos = 1 ]_vars

\* The part of C7 that the code keeps: with looping on, the playback step
\* that reaches end-of-stream publishes PlaybackLooped, writes 0 to the seek
\* slot, stays Playing and publishes no Done; the step that applies that seek
\* asks the reader for time 0 and, where the reader's seek succeeds, leaves
\* it at its first packet.
Thm_C7 ==
    /\ [](last.op = "looped" =>
            /\ "PlaybackLooped" \in last.notes
            /\ "Done" \notin last.notes
            /\ state = "Playing"
            /\ pc # "finish"
            /\ IsSome(SEEK_TS)
            /\ slot = "loop" => SEEK_TS = Some(0))
    /\ [][ (AtEndOfStream /\ IS_LOOPING) =>
                (last'.op = "looped" /\ SEEK_TS' = Some(0) /\ state' = state) ]_vars
    /\ [][ AppliesLoopSeek =>
                /\ SEEK_TS = Some(0)
                /\ last'.op = "seek"
                /\ Seekable(Unwrap(playback).src) => Unwrap(playback').pos = 1 ]_vars

\* The case of C7 on a seekable source: after a looped end-of-stream the seek to 0 was applied and the
\* reader of a seekable source is back at its first packet.
Witness_C7 ==
    /\ last.op = "seek"
    /\ slot = "loop"
    /\ IsSome(playback)
    /\ Unwrap(playback).src = "good"
    /\ Unwrap(playback).pos = 1

\* The decoder thread publishes a progress whose position is behind the
\* stored one.
PublishesBackwards ==
    /\ pc' # pc
    /\ "Progress" \in last'.notes
    /\ PROGRESS'.position < PROGRESS.position

\* C10 as claimed: a published position is behind the previous one only
\* across an explicit seek (or a command other than Play and Pause).
CE_C10 ==
    [][ PublishesBackwards => excuse = "explicit" ]_vars

\* C10 as amended: a published position is behind the previous one only
\* across an explicit seek, across the seek to 0 of a looped end-of-stream,
\* or when finish_playback publishes {0, 0} at natural completion.
Thm_C10 ==
    [][ PublishesBackwards => (excuse # "none" \/ last'.op = "finish") ]_vars

\* C10's case: after a looped end-of-stream a packet's position was
\* published behind the previous one.
Witness_C10 ==
    /\ last.op = "decodedLoop"
    /\ state = "Playing"
    /\ PROGRESS.position = 0

\* C11: right after DeviceChanged has been processed the engine is not
\* Playing and does not go on to a playback step.
CE_C11 ==
    last.op = "DeviceChanged" => (state # "Playing" /\ pc # "play")

\* C12: processing Play leaves the state Playing and processing Pause leaves
\* it Paused, also when the sink's stream call fails; processing Open, with
\* whatever outcome, leaves the state as it was and the sink absent.
Thm_C12 ==
    [][ /\ Dequeues("Play") => state' = "Playing"
        /\ Dequeues("Pause") => state' = "Paused"
        /\ Dequeues("Open") => (state' = state /\ cpal_output' = None) ]_vars

\* C12's case: Play was processed, resuming the sink's stream failed, and
\* the state is Playing all the same.
Witness_C12 ==
    /\ last.op = "Play"
    /\ "DecodeError" \in last.notes
    /\ IsSome(cpal_output)
    /\ state = "Playing"

\* C13: when the engine has just entered Idle through Stop or through
\* natural completion, no session is held.
CE_C13 ==
    (state = "Idle" /\ last.op \in {"Stop", "complete", "finish"}) =>
        playback = None

\* C14: a PlayPreload dequeued in Idle or Paused when the preload thread has
\* finished successfully (its handle is still the current one, so no Preload
\* came in between) installs that thread's session and leaves the sink
\* absent.
CE_C14 ==
    [][ ( /\ Dequeues("PlayPreload")
          /\ state \in {"Idle", "Paused"}
          /\ IsSome(preload_thread)
          /\ Unwrap(preload_thread).fin
          /\ PreloadOk(Unwrap(preload_thread).src) ) =>
            /\ IsSome(playback')
            /\ Unwrap(playback') = Preloaded(Unwrap(preload_thread).src)
            /\ cpal_output' = None ]_vars

\* A packet is handed to the sink that lies, in a stream the reader cannot
\* reposition, after a packet of the session that failed to decode.
WritesPastCorrupt ==
    /\ pc = "write"
    /\ pending.kind = "packet"
    /\ ~Seekable(Unwrap(playback).src)
    /\ \E i \in 1..Len(Packets(Unwrap(playback).src)) :
            /\ ~Packets(Unwrap(playback).src)[i].ok
            /\ Packets(Unwrap(playback).src)[i].ts < pending.ts

\* C15 as claimed: after a packet of the session failed to decode, no later
\* packet of that session is written to the sink.
CE_C15 ==
    ~WritesPastCorrupt

\* The playback step pulls a packet of the session's track that does not
\* decode.
PullsCorrupt ==
    /\ pc = "decode"
    /\ pc' # pc
    /\ Unwrap(playback).pos <= Len(Packets(Unwrap(playback).src))
    /\ Packets(Unwrap(playback).src)[Unwrap(playback).pos].track
            = TrackId(Unwrap(playback).src)
    /\ ~Packets(Unwrap(playback).src)[Unwrap(playback).pos].ok

\* C15 as amended: when decoding a packet fails, DecodeError is published,
\* the engine stays Playing, nothing is written and no progress is published
\* for that packet, and the reader has moved past it, so the next playback
\* step goes on with the following packet.
Thm_C15 ==
    [][ PullsCorrupt =>
            /\ "DecodeError" \in last'.notes
            /\ "Progress" \notin last'.notes
            /\ state = "Playing"
            /\ state' = "Playing"
            /\ PROGRESS' = PROGRESS
            /\ cpal_output' = cpal_output
            /\ pc' = "poll"
            /\ Unwrap(playback').pos = Unwrap(playback).pos + 1 ]_vars

\* C15's case: a packet failed to decode in the middle of a session that is
\* playing through a sink, and packets remain after it.
Witness_C15 ==
    /\ last.op = "decodeErr"
    /\ state = "Playing"
    /\ IsSome(cpal_output)
    /\ Unwrap(playback).pos <= Len(Packets(Unwrap(playback).src))

\* The decoder thread leaves listen_for_message and start()'s check of the
\* state behind it.
Listens ==
    /\ pc = "listen"
    /\ pc' # pc

\* The steps the decoder thread records for a command of each type.
OpsOf(type) ==
    CASE type = "Open"        -> {"Open", "OpenErr", "panic"}
      [] type = "Preload"     -> {"Preload", "PreloadOver"}
      [] type = "PlayPreload" -> {"PlayPreload", "PlayPreloadNoop"}
      [] OTHER                -> {type}

\* C16 as claimed, for Playing: an iteration that starts listening in
\* Playing and does not leave the loop goes on to a playback step, whether
\* or not a command was present.
CE_C16 ==
    [][ (Listens /\ state = "Playing" /\ pc' \notin {"stopped", "panicked"}) =>
            pc' = "play" ]_vars

\* C16 as amended: commands enter the channel at its end and leave it
\* oldest first, one per iteration and only in listen_for_message, the one
\* processed being the oldest; in Idle or Paused the engine
\* waits until a command is there; the iteration goes on to a playback step
\* exactly when the state is Playing after the command, if any, has been
\* processed (and the loop was not left).
Thm_C16 ==
    [][ /\ Listens =>
              /\ rx = << >> => (state = "Playing" /\ rx' = rx /\ state' = state)
              /\ rx # << >> =>
                    /\ last'.op \in OpsOf(Head(rx).type)
                    /\ \E suffix \in {<< >>, << Msg("Play") >>, << Msg("Pause") >>} :
                            rx' = Tail(rx) \o suffix
              /\ pc' = "play" => state' = "Playing"
              /\ (state' = "Playing" /\ pc' \notin {"stopped", "panicked"}) =>
                    pc' = "play"
        /\ (pc' # pc /\ pc # "listen") => rx' = rx
        /\ (pc' = pc /\ rx' # rx) =>
                (Len(rx') = Len(rx) + 1 /\ SubSeq(rx', 1, Len(rx)) = rx) ]_vars

\* C16's case: Pause was dequeued in an iteration that started in Playing
\* (the sink still holds audio of it), another command is waiting behind
\* it, and the iteration ended without a playback step.
Witness_C16 ==
    /\ last.op = "Pause"
    /\ state = "Paused"
    /\ pc = "poll"
    /\ IsSome(cpal_output)
    /\ Unwrap(cpal_output).ring > 0
    /\ rx # << >>

\* The first playback step on a session that holds a preload buffer.
TakesPreload ==
    /\ pc = "play"
    /\ pc' # pc
    /\ IsSome(playback)
    /\ Unwrap(playback).preload

\* C17: the playback step that finds the session's preload buffer hands that
\* buffer to the sink, without pulling a packet, touching the seek slot or
\* publishing progress; the buffer is gone afterwards.
CE_C17 ==
    [][ TakesPreload =>
            /\ pc' = "write"
            /\ pending'.kind = "preload"
            /\ IsSome(cpal_output')
            /\ ~Unwrap(playback').preload
            /\ Unwrap(playback').pos = Unwrap(playback).pos
            /\ UNCHANGED << SEEK_TS, PROGRESS >> ]_vars

\* C18: a sink exists only while a session is active and was built from a
\* buffer of that session's source; the sink is built only by a playback
\* step on the active session; Open, Stop and a PlayPreload that installs a
\* session leave the sink absent.
Thm_C18 ==
    /\ [](IsSome(cpal_output) =>
            /\ IsSome(playback)
            /\ Unwrap(cpal_output).src = Unwrap(playback).src)
    /\ [][ (cpal_output = None /\ IsSome(cpal_output')) =>
                /\ pc \in {"play", "decode"}
                /\ IsSome(playback)
                /\ playback' # None
                /\ Unwrap(cpal_output').src = Unwrap(playback').src ]_vars
    /\ [][ ( \/ Dequeues("Open")
             \/ Dequeues("Stop")
             \/ Dequeues("PlayPreload") /\ IsSome(preload_playback) ) =>
                cpal_output' = None ]_vars
    /\ [][ (pc' # pc /\ playback' # playback /\ pc = "listen") =>
                cpal_output' = None ]_vars

\* C18's case: a session of another source was installed while the sink of
\* the previous one still held audio, and the sink is gone.
Witness_C18 ==
    /\ last.op \in {"Open", "PlayPreload"}
    /\ Unwrap(playback).src = "rough"
    /\ PROGRESS.duration > 0
    /\ cpal_output = None
    /\ state = "Playing"

\* The playback step issues a reader seek for the request in the slot.
AppliesSeek ==
    /\ pc = "play"
    /\ pc' = "seekCheck"
    /\ IsSome(SEEK_TS)

\* C19: the playback step never applies, as a seek on the active session, a
\* request that was put in the slot while an earlier session was active.
CE_C19 ==
    [][ AppliesSeek => slot # "old" ]_vars

\* finish_playback has published Done and the engine is Idle.
Finished ==
    /\ state = "Idle"
    /\ last.op = "finish"
    /\ "Done" \in last.notes

\* C20: an engine that is Playing a session with looping off, and that the
\* callers leave alone, eventually is Idle with Done published; Done is
\* published once per completion, and the engine becomes Playing again only
\* by dequeuing a Play, so no second Done follows without a further command.
Thm_C20 ==
    /\ Quiet ~> Finished
    /\ [][ (pc = "finish" /\ pc' # pc) =>
                (last.op = "complete" /\ state = "Idle" /\ last'.op = "finish") ]_vars
    /\ [][ ("Done" \in last'.notes /\ last' # last) => pc = "finish" ]_vars
    /\ [][ (state # "Playing" /\ state' = "Playing") => Dequeues("Play") ]_vars

\* C20's case: a session whose stream holds a packet that fails to decode
\* was played to its end through a sink, and Done has been published.
Witness_C20 ==
    /\ Finished
    /\ IsSome(playback)
    /\ Unwrap(playback).src = "rough"
    /\ Unwrap(playback).pos > Len(Packets("rough"))
    /\ IsSome(cpal_output)

=============================================================================
